---- MODULE Spec2Model ----
(***************************************************************************)
(* Model of ninja's missing-dependency scanner (src/src/missing_deps.cc).  *)
(*                                                                         *)
(* A Node is a number 1..NumNodes, an Edge is named by its first output    *)
(* node, NULL is 0.  The graph, the deps log and the depfiles on disk are  *)
(* chosen in Init and are state; the scanner's fields keep the names they  *)
(* have in the source.  ProcessNode, ProcessNodeDeps and PathExistsBetween *)
(* are recursive operators on a "world" record (graph + deps log + the     *)
(* scanner's fields + the trace of what happened), so that every       *)
(* assignment of the code, and nothing else, shows in the next state.      *)
(***************************************************************************)
EXTENDS Integers, Sequences, FiniteSets, TLC

(***************************************************************************)
(* Bounds of the model.                                                    *)
(***************************************************************************)
NumNodes == 4
MaxInputs == 2
MaxDeps == 2
MaxCalls == 2
RunNodes == 3
MaxStack == 8
MaxPaths == 3

NULL == 0
\* The null Deps pointer GetDeps returns for a node without an entry.
NullDeps == [nodes |-> <<>>, node_count |-> -1]
\* No depfile, a missing one, or one that does not parse.
NoDepfile == [ok |-> FALSE, ins |-> <<>>]
Nodes == 1..NumNodes
Edges == Nodes

\* Node::path(): the node's file path.  Paths are unique per node (State keeps
\* one Node per path).
PathNames == <<"build.ninja", "a.h", "b.o", "c.o", "d.o", "e.o", "f.o">>
path(n) == PathNames[n]

\* The rules of the manifest and Rule::name().
Rules == {"r1", "r2"}
RuleName(r) == IF r = "r1" THEN "cc" ELSE "gen"

VARIABLES
    in_edge,        \* Node::in_edge(): node -> producing edge or NULL
    inputs_,        \* Edge::inputs_: edge -> sequence of nodes
    outputs_,       \* Edge::outputs_: edge -> sequence of nodes
    rule_,          \* Edge::rule(): edge -> rule
    bindings,       \* Edge::GetBinding("deps"): edge -> string
    deps_log,       \* DepsLog::GetDeps: node -> NullDeps or [nodes, node_count]
    disk,           \* the depfile of an edge on disk: edge -> NoDepfile or
                    \* [ok |-> TRUE, ins |-> the paths it lists]
    seen_,
    nodes_missing_deps_,
    generated_nodes_,
    generator_rules_,
    missing_dep_path_count_,
    adjacency_map_,
    trace,          \* history: the delegate's OnMissingDep calls and the
                    \* scanner's steps, in the order they happened
    cout,           \* what the last operation wrote to std::cout
    result,         \* what the last operation was and what it returned
    ncalls,         \* number of operations called in this session
    alt,            \* the outcome of a second session over the same graph,
                    \* run with the roots and the inputs in another order
    stack,          \* the call stack of an operation run statement by
                    \* statement: a sequence of frames, the last on top
    paths_,         \* StatCache::paths_: path -> pointer to a FileStat
    stats,          \* the FileStats: pointer -> [path_, mtime_, node_]
    dirty_,         \* Node::dirty_ of the nodes the FileStats point to
    fault           \* "": none; "deref": a store through a null pointer
                    \* went by unnoticed; "crash": it ended the process

graphVars == <<in_edge, inputs_, outputs_, rule_, bindings>>
scanVars == <<seen_, nodes_missing_deps_, generated_nodes_, generator_rules_,
              missing_dep_path_count_, adjacency_map_>>
vars == <<in_edge, inputs_, outputs_, rule_, bindings, deps_log, disk, seen_,
          nodes_missing_deps_, generated_nodes_, generator_rules_,
          missing_dep_path_count_, adjacency_map_, trace, cout,
          result, ncalls, alt, stack, paths_, stats, dirty_, fault>>
cacheVars == <<paths_, stats, dirty_, fault>>

(***************************************************************************)
(* Helpers.                                                                *)
(***************************************************************************)
Range(s) == {s[i] : i \in DOMAIN s}

SeqsUpTo(S, n) == UNION {[1..k -> S] : k \in 0..n}

\* The elements of a set of numbers in ascending order (iteration order of a
\* std::set keyed by pointers / indices).
RECURSIVE SetToSeq(_)
SetToSeq(S) ==
    IF S = {} THEN <<>>
    ELSE LET m == CHOOSE x \in S : \A y \in S : x <= y
         IN <<m>> \o SetToSeq(S \ {m})

EmptyMap == [x \in {} |-> FALSE]

\* std::map::insert(make_pair(k, v)): no effect when the key is present.
MapInsert(m, k, v) ==
    IF k \in DOMAIN m THEN m
    ELSE [x \in DOMAIN m \cup {k} |-> IF x = k THEN v ELSE m[x]]

\* The two-level memo has an entry for the pair.
HasEntry(am, from, to) == from \in DOMAIN am /\ to \in DOMAIN am[from]

\* it->second.insert(make_pair(to, v)), `it` being the entry of `from`.
MemoInsert(am, from, to, v) ==
    [k \in DOMAIN am |-> IF k = from THEN MapInsert(am[k], to, v) ELSE am[k]]

\* One entry of the trace: "visit" a (a node marked seen), "classify" a (the
\* dependency classification of node a starts), "logread" a, "depfile" a,
\* "deps" a (ProcessNodeDeps entered for node a), "scan" a b (the input scan of
\* PathExistsBetween(a, b)), and "report" a b p r: OnMissingDep(a, p, r), made
\* for the dependency node b.
Ev(kind, a, b, p, r) == [kind |-> kind, a |-> a, b |-> b, p |-> p, r |-> r]

\* The world an operation runs in.
World ==
    [in_edge |-> in_edge, inputs_ |-> inputs_, outputs_ |-> outputs_,
     rule_ |-> rule_, bindings |-> bindings, deps_log |-> deps_log,
     disk |-> disk, seen_ |-> seen_,
     nodes_missing_deps_ |-> nodes_missing_deps_,
     generated_nodes_ |-> generated_nodes_,
     generator_rules_ |-> generator_rules_,
     missing_dep_path_count_ |-> missing_dep_path_count_,
     adjacency_map_ |-> adjacency_map_, trace |-> trace]

(***************************************************************************)
(* PathExistsBetween (missing_deps.cc:168-188).  PathExistsBetween returns *)
(* [ret, w]: the value returned and the world after the call.              *)
(***************************************************************************)
RECURSIVE PathExistsBetween(_, _, _)
RECURSIVE ScanInputs(_, _, _, _)

\* The input scan without the recursive query: direct inputs only.
ScanInputsDirect(from, to, i, w) ==
    [found |-> \E k \in i..Len(w.inputs_[to]) :
                   w.in_edge[w.inputs_[to][k]] = from,
     w |-> w]

\* The loop of lines 178-185 from input number i on, with its break.
ScanInputs(from, to, i, w) ==
    IF i > Len(w.inputs_[to]) THEN [found |-> FALSE, w |-> w]
    ELSE LET e == w.in_edge[w.inputs_[to][i]]
         IN IF e = NULL THEN ScanInputs(from, to, i + 1, w)
            ELSE IF e = from THEN [found |-> TRUE, w |-> w]
            ELSE LET r == PathExistsBetween(from, e, w)
                 IN IF r.ret THEN [found |-> TRUE, w |-> r.w]
                    ELSE ScanInputs(from, to, i + 1, r.w)

\* The memo looked up by `to` alone: an entry stored for `to` under any
\* `from` answers the query.
PathExistsBetweenAnyFrom(from, to, w) ==
    IF \E f \in DOMAIN w.adjacency_map_ : to \in DOMAIN w.adjacency_map_[f]
    THEN LET f == CHOOSE f \in DOMAIN w.adjacency_map_ :
                      to \in DOMAIN w.adjacency_map_[f]
         IN [ret |-> w.adjacency_map_[f][to], w |-> w]
    ELSE LET w1 == [w EXCEPT !.adjacency_map_ = MapInsert(@, from, EmptyMap),
                             !.trace = Append(@, Ev("scan", from, to, "", ""))]
             r == ScanInputs(from, to, 1, w1)
             am == r.w.adjacency_map_
             w2 == [r.w EXCEPT !.adjacency_map_ =
                       [k \in DOMAIN am |->
                           IF k = from THEN MapInsert(am[k], to, r.found)
                           ELSE am[k]]]
         IN [ret |-> r.found, w |-> w2]

\* The query answering true for an edge asked about itself.
PathExistsBetweenReflexive(from, to, w) ==
    IF from = to THEN [ret |-> TRUE, w |-> w]
    ELSE IF from \in DOMAIN w.adjacency_map_
            /\ to \in DOMAIN w.adjacency_map_[from]
    THEN [ret |-> w.adjacency_map_[from][to], w |-> w]
    ELSE LET w1 == [w EXCEPT !.adjacency_map_ = MapInsert(@, from, EmptyMap),
                             !.trace = Append(@, Ev("scan", from, to, "", ""))]
             r == ScanInputs(from, to, 1, w1)
             am == r.w.adjacency_map_
             w2 == [r.w EXCEPT !.adjacency_map_ =
                       [k \in DOMAIN am |->
                           IF k = from THEN MapInsert(am[k], to, r.found)
                           ELSE am[k]]]
         IN [ret |-> r.found, w |-> w2]

\* The query without the lookup of lines 169-174: every call scans again.
PathExistsBetweenNoLookup(from, to, w) ==
    LET w1 == [w EXCEPT !.adjacency_map_ = MapInsert(@, from, EmptyMap),
                        !.trace = Append(@, Ev("scan", from, to, "", ""))]
        r == ScanInputs(from, to, 1, w1)
        am == r.w.adjacency_map_
        w2 == [r.w EXCEPT !.adjacency_map_ =
                  [k \in DOMAIN am |->
                      IF k = from THEN MapInsert(am[k], to, r.found)
                      ELSE am[k]]]
    IN [ret |-> r.found, w |-> w2]

PathExistsBetween(from, to, w) ==
    IF from \in DOMAIN w.adjacency_map_ /\ to \in DOMAIN w.adjacency_map_[from]
    THEN [ret |-> w.adjacency_map_[from][to], w |-> w]
    ELSE LET w1 == [w EXCEPT !.adjacency_map_ = MapInsert(@, from, EmptyMap),
                             !.trace = Append(@, Ev("scan", from, to, "", ""))]
             r == ScanInputs(from, to, 1, w1)
             am == r.w.adjacency_map_
             w2 == [r.w EXCEPT !.adjacency_map_ =
                       [k \in DOMAIN am |->
                           IF k = from THEN MapInsert(am[k], to, r.found)
                           ELSE am[k]]]
         IN [ret |-> r.found, w |-> w2]


(***************************************************************************)
(* ProcessNodeDeps (missing_deps.cc:107-148).                              *)
(***************************************************************************)
RECURSIVE CollectEdges(_, _, _, _, _)
RECURSIVE FindMissing(_, _, _, _, _)
RECURSIVE FindMissingFirst(_, _, _, _, _)
RECURSIVE ReportDeps(_, _, _, _, _, _)
RECURSIVE ReportMissing(_, _, _, _, _, _)

\* The first loop with `continue` in place of `return` at build.ninja.
CollectEdgesSkip(dep_nodes, dep_nodes_count, i, deplog_edges, w) ==
    [stop |-> FALSE,
     edges |-> deplog_edges \cup
               ({w.in_edge[dep_nodes[k]] : k \in
                    {j \in i..dep_nodes_count :
                        path(dep_nodes[j]) # "build.ninja"}} \ {NULL})]

\* Lines 111-125 from index i on (the code counts from 0, sequences from 1):
\* [stop |-> TRUE] at a dependency on build.ninja, else the edges collected.
CollectEdges(dep_nodes, dep_nodes_count, i, deplog_edges, w) ==
    IF i > dep_nodes_count THEN [stop |-> FALSE, edges |-> deplog_edges]
    ELSE LET deplog_node == dep_nodes[i]
             deplog_edge == w.in_edge[deplog_node]
         IN IF path(deplog_node) = "build.ninja"
            THEN [stop |-> TRUE, edges |-> {}]
            ELSE CollectEdges(dep_nodes, dep_nodes_count, i + 1,
                    IF deplog_edge # NULL THEN deplog_edges \cup {deplog_edge}
                    ELSE deplog_edges, w)

\* The search for missing edges that stops at the first one found.
FindMissingFirst(des, k, edge, missing_deps, w) ==
    IF k > Len(des) \/ missing_deps # <<>>
    THEN [missing_deps |-> missing_deps, w |-> w]
    ELSE LET r == PathExistsBetween(des[k], edge, w)
         IN FindMissingFirst(des, k + 1, edge,
                IF ~r.ret THEN Append(missing_deps, des[k]) ELSE missing_deps,
                r.w)

\* Lines 126-131 from the k-th edge of the set on: the edges without a path to
\* `edge`, in the set's order, and the world after the queries.
FindMissing(des, k, edge, missing_deps, w) ==
    IF k > Len(des) THEN [missing_deps |-> missing_deps, w |-> w]
    ELSE LET r == PathExistsBetween(des[k], edge, w)
         IN FindMissing(des, k + 1, edge,
                IF ~r.ret THEN Append(missing_deps, des[k]) ELSE missing_deps,
                r.w)

\* The report loop without the insert of line 138.
ReportDepsNoInsert(node, dep_nodes, dep_nodes_count, item, i, acc) ==
    IF i > dep_nodes_count THEN acc
    ELSE IF acc.w.in_edge[dep_nodes[i]] = item
    THEN LET rl == acc.w.rule_[item]
             w1 == [acc.w EXCEPT
                      !.generator_rules_ = @ \cup {rl},
                      !.trace = Append(@, Ev("report", node, dep_nodes[i],
                                             path(dep_nodes[i]), rl))]
         IN ReportDeps(node, dep_nodes, dep_nodes_count, item, i + 1,
                [w |-> w1, names |-> acc.names \cup {RuleName(rl)}])
    ELSE ReportDeps(node, dep_nodes, dep_nodes_count, item, i + 1, acc)

\* Lines 136-143 for one missing edge `item`, from index i on.
\* acc = [w, names]: the world and missing_deps_rule_names.
ReportDeps(node, dep_nodes, dep_nodes_count, item, i, acc) ==
    IF i > dep_nodes_count THEN acc
    ELSE IF acc.w.in_edge[dep_nodes[i]] = item
    THEN LET rl == acc.w.rule_[item]
             w1 == [acc.w EXCEPT
                      !.generated_nodes_ = @ \cup {dep_nodes[i]},
                      !.generator_rules_ = @ \cup {rl},
                      !.trace = Append(@, Ev("report", node, dep_nodes[i],
                                             path(dep_nodes[i]), rl))]
         IN ReportDeps(node, dep_nodes, dep_nodes_count, item, i + 1,
                [w |-> w1, names |-> acc.names \cup {RuleName(rl)}])
    ELSE ReportDeps(node, dep_nodes, dep_nodes_count, item, i + 1, acc)

\* Lines 135-144 from the j-th missing edge on.
ReportMissing(node, dep_nodes, dep_nodes_count, missing_deps, j, acc) ==
    IF j > Len(missing_deps) THEN acc
    ELSE ReportMissing(node, dep_nodes, dep_nodes_count, missing_deps, j + 1,
            ReportDeps(node, dep_nodes, dep_nodes_count, missing_deps[j], 1,
                       acc))

\* ProcessNodeDeps counting the missing edges at line 145, not the rule names.
ProcessNodeDepsCountEdges(node, dep_nodes, dep_nodes_count, w0) ==
    LET w == [w0 EXCEPT !.trace = Append(@, Ev("deps", node, 0, "", ""))]
        edge == w.in_edge[node]
        c == CollectEdges(dep_nodes, dep_nodes_count, 1, {}, w)
    IN IF c.stop THEN w
       ELSE LET m == FindMissing(SetToSeq(c.edges), 1, edge, <<>>, w)
            IN IF m.missing_deps # <<>>
               THEN LET r == ReportMissing(node, dep_nodes, dep_nodes_count,
                                 m.missing_deps, 1,
                                 [w |-> m.w, names |-> {}])
                    IN [r.w EXCEPT
                          !.missing_dep_path_count_ = @ + Len(m.missing_deps),
                          !.nodes_missing_deps_ = @ \cup {node}]
               ELSE m.w

\* ProcessNodeDeps with line 146 after the `if` of line 133: the node is
\* inserted whether or not an edge is missing.
ProcessNodeDepsInsertAlways(node, dep_nodes, dep_nodes_count, w0) ==
    LET w == [w0 EXCEPT !.trace = Append(@, Ev("deps", node, 0, "", ""))]
        edge == w.in_edge[node]
        c == CollectEdges(dep_nodes, dep_nodes_count, 1, {}, w)
    IN IF c.stop THEN w
       ELSE LET m == FindMissing(SetToSeq(c.edges), 1, edge, <<>>, w)
                r == ReportMissing(node, dep_nodes, dep_nodes_count,
                                   m.missing_deps, 1,
                                   [w |-> m.w, names |-> {}])
            IN [r.w EXCEPT
                  !.missing_dep_path_count_ = @ + Cardinality(r.names),
                  !.nodes_missing_deps_ = @ \cup {node}]

\* ProcessNodeDeps with `=` for the `+=` of line 145.
ProcessNodeDepsAssignCount(node, dep_nodes, dep_nodes_count, w0) ==
    LET w == [w0 EXCEPT !.trace = Append(@, Ev("deps", node, 0, "", ""))]
        edge == w.in_edge[node]
        c == CollectEdges(dep_nodes, dep_nodes_count, 1, {}, w)
    IN IF c.stop THEN w
       ELSE LET m == FindMissing(SetToSeq(c.edges), 1, edge, <<>>, w)
            IN IF m.missing_deps # <<>>
               THEN LET r == ReportMissing(node, dep_nodes, dep_nodes_count,
                                 m.missing_deps, 1,
                                 [w |-> m.w, names |-> {}])
                    IN [r.w EXCEPT
                          !.missing_dep_path_count_ = Cardinality(r.names),
                          !.nodes_missing_deps_ = @ \cup {node}]
               ELSE m.w

ProcessNodeDeps(node, dep_nodes, dep_nodes_count, w0) ==
    LET w == [w0 EXCEPT !.trace = Append(@, Ev("deps", node, 0, "", ""))]
        edge == w.in_edge[node]
        c == CollectEdges(dep_nodes, dep_nodes_count, 1, {}, w)
    IN IF c.stop THEN w
       ELSE LET m == FindMissing(SetToSeq(c.edges), 1, edge, <<>>, w)
            IN IF m.missing_deps # <<>>
               THEN LET r == ReportMissing(node, dep_nodes, dep_nodes_count,
                                 m.missing_deps, 1,
                                 [w |-> m.w, names |-> {}])
                    IN [r.w EXCEPT
                          !.missing_dep_path_count_ = @ + Cardinality(r.names),
                          !.nodes_missing_deps_ = @ \cup {node}]
               ELSE m.w

(***************************************************************************)
(* The depfile branch: the loader of missing_deps.cc:32-59.                *)
(***************************************************************************)
\* A path as a depfile spells it: an optional leading "./" and the name.
RawPath(d, n) == [dir |-> d, name |-> path(n)]

\* CanonicalizePath (util.cc): the path without its leading "./".
CanonicalizePath(item) == [dir |-> "", name |-> item.name]

\* State::GetNode (state.cc): the node of a canonical path.
GetNode(item) == CHOOSE n \in Nodes : item.dir = "" /\ path(n) = item.name

RECURSIVE ProcessDepfileDepsFrom(_, _, _, _)
\* Lines 52-57 from item number i on.  acc = [w, dep_nodes_output_].
ProcessDepfileDepsFrom(edge, depfile_ins, i, acc) ==
    IF i > Len(depfile_ins) THEN acc
    ELSE LET node == GetNode(CanonicalizePath(depfile_ins[i]))
         IN ProcessDepfileDepsFrom(edge, depfile_ins, i + 1,
                [acc EXCEPT !.dep_nodes_output_ = Append(@, node)])

\* A loader that records what it parsed in the deps log, as a build does.
ProcessDepfileDepsRecording(edge, depfile_ins, acc) ==
    LET r == ProcessDepfileDepsFrom(edge, depfile_ins, 1, acc)
        out == r.w.outputs_[edge][1]
    IN [r EXCEPT !.w.deps_log[out] =
            [nodes |-> r.dep_nodes_output_,
             node_count |-> Len(r.dep_nodes_output_)]]

\* NodeStoringImplicitDepLoader::ProcessDepfileDeps.
ProcessDepfileDeps(edge, depfile_ins, acc) ==
    ProcessDepfileDepsFrom(edge, depfile_ins, 1, acc)

\* ImplicitDepLoader::LoadDeps (graph.cc) for an edge without a "deps"
\* binding: a missing or unparsable depfile loads nothing, else the parsed
\* paths go to ProcessDepfileDeps.
LoadDeps(edge, acc) ==
    IF ~acc.w.disk[edge].ok THEN acc
    ELSE ProcessDepfileDeps(edge, acc.w.disk[edge].ins, acc)

\* DepsLog::GetDeps (deps_log.cc): the recorded entry of a node, or NULL.
GetDeps(node, w) == w.deps_log[node]

(***************************************************************************)
(* ProcessNode (missing_deps.cc:77-105).                                   *)
(***************************************************************************)
RECURSIVE ProcessNode(_, _)
RECURSIVE ProcessInputs(_, _, _)

\* The loop of lines 86-88 leaving after the first input.
ProcessInputsFirst(edge, i, w) ==
    IF i > Len(w.inputs_[edge]) \/ i > 1 THEN w
    ELSE ProcessNode(w.inputs_[edge][i], w)

\* Lines 86-88 from input number i on.
ProcessInputs(edge, i, w) ==
    IF i > Len(w.inputs_[edge]) THEN w
    ELSE ProcessInputs(edge, i + 1, ProcessNode(w.inputs_[edge][i], w))

\* The classification reading the deps log entry of the edge's first output
\* in place of the node's.
ClassifyDepsFirstOutput(node, edge, w0) ==
    LET w == [w0 EXCEPT !.trace = Append(@, Ev("classify", node, 0, "", ""))]
        deps_type == w.bindings[edge]
    IN IF deps_type # ""
       THEN LET w1 == [w EXCEPT
                         !.trace = Append(@, Ev("logread", node, 0, "", ""))]
                deps == GetDeps(w1.outputs_[edge][1], w1)
            IN IF deps # NullDeps
               THEN ProcessNodeDeps(node, deps.nodes, deps.node_count, w1)
               ELSE w1
       ELSE LET w1 == [w EXCEPT
                         !.trace = Append(@, Ev("depfile", node, 0, "", ""))]
                r == LoadDeps(edge, [w |-> w1, dep_nodes_output_ |-> <<>>])
                depfile_deps == r.dep_nodes_output_
            IN IF depfile_deps # <<>>
               THEN ProcessNodeDeps(node, depfile_deps, Len(depfile_deps), r.w)
               ELSE r.w

\* The classification that loads the depfile when the deps log has no entry.
ClassifyDepsFallback(node, edge, w0) ==
    LET w == [w0 EXCEPT !.trace = Append(@, Ev("classify", node, 0, "", ""))]
        deps_type == w.bindings[edge]
        w1 == [w EXCEPT !.trace = Append(@, Ev("logread", node, 0, "", ""))]
        deps == GetDeps(node, w1)
    IN IF deps_type # "" /\ deps # NullDeps
       THEN ProcessNodeDeps(node, deps.nodes, deps.node_count, w1)
       ELSE LET w2 == [(IF deps_type # "" THEN w1 ELSE w) EXCEPT
                         !.trace = Append(@, Ev("depfile", node, 0, "", ""))]
                r == LoadDeps(edge, [w |-> w2, dep_nodes_output_ |-> <<>>])
                depfile_deps == r.dep_nodes_output_
            IN IF depfile_deps # <<>>
               THEN ProcessNodeDeps(node, depfile_deps, Len(depfile_deps), r.w)
               ELSE r.w

\* Lines 90-104.
ClassifyDeps(node, edge, w0) ==
    LET w == [w0 EXCEPT !.trace = Append(@, Ev("classify", node, 0, "", ""))]
        deps_type == w.bindings[edge]
    IN IF deps_type # ""
       THEN LET w1 == [w EXCEPT
                         !.trace = Append(@, Ev("logread", node, 0, "", ""))]
                deps == GetDeps(node, w1)
            IN IF deps # NullDeps
               THEN ProcessNodeDeps(node, deps.nodes, deps.node_count, w1)
               ELSE w1
       ELSE LET w1 == [w EXCEPT
                         !.trace = Append(@, Ev("depfile", node, 0, "", ""))]
                r == LoadDeps(edge, [w |-> w1, dep_nodes_output_ |-> <<>>])
                depfile_deps == r.dep_nodes_output_
            IN IF depfile_deps # <<>>
               THEN ProcessNodeDeps(node, depfile_deps, Len(depfile_deps), r.w)
               ELSE r.w

\* ProcessNode without the test of line 83: the node is inserted and
\* processed whether seen or not.
ProcessNodeAgain(node, w) ==
    IF node = NULL THEN w
    ELSE LET edge == w.in_edge[node]
         IN IF edge = NULL THEN w
            ELSE LET w1 == [w EXCEPT
                              !.seen_ = @ \cup {node},
                              !.trace = Append(@, Ev("visit", node, 0, "", ""))]
                     w2 == ProcessInputs(edge, 1, w1)
                 IN ClassifyDeps(node, edge, w2)

\* ProcessNode with lines 90-104 ahead of the loop of lines 86-88.
ProcessNodeClassifyFirst(node, w) ==
    IF node = NULL THEN w
    ELSE LET edge == w.in_edge[node]
         IN IF edge = NULL THEN w
            ELSE IF node \in w.seen_ THEN w
            ELSE LET w1 == [w EXCEPT
                              !.seen_ = @ \cup {node},
                              !.trace = Append(@, Ev("visit", node, 0, "", ""))]
                     w2 == ClassifyDeps(node, edge, w1)
                 IN ProcessInputs(edge, 1, w2)

ProcessNode(node, w) ==
    IF node = NULL THEN w
    ELSE LET edge == w.in_edge[node]
         IN IF edge = NULL THEN w
            ELSE IF node \in w.seen_ THEN w
            ELSE LET w1 == [w EXCEPT
                              !.seen_ = @ \cup {node},
                              !.trace = Append(@, Ev("visit", node, 0, "", ""))]
                     w2 == ProcessInputs(edge, 1, w1)
                 IN ClassifyDeps(node, edge, w2)

(***************************************************************************)
(* OnMissingDep of MissingDependencyPrinter, HadMissingDeps, PrintStats.   *)
(***************************************************************************)
\* The OnMissingDep calls of a trace, in order.
Reports(t) == SelectSeq(t, LAMBDA e : e.kind = "report")

\* MissingDependencyPrinter::OnMissingDep (lines 65-69): the line of one call.
OnMissingDepLine(e) ==
    <<"Missing dep: ", path(e.a), " uses ", e.p, " (generated by ",
      RuleName(e.r), ")">>

\* HadMissingDeps (missing_deps.h).
HadMissingDeps(w) == w.nodes_missing_deps_ # {}

\* PrintStats (lines 150-166): the lines written.
PrintStats(w) ==
    << <<"Processed ", ToString(Cardinality(w.seen_)), " nodes.">> >> \o
    (IF HadMissingDeps(w)
     THEN << <<"Error: There are ", ToString(w.missing_dep_path_count_),
               " missing dependency paths.">>,
             <<ToString(Cardinality(w.nodes_missing_deps_)),
               " targets had depfile dependencies on ",
               ToString(Cardinality(w.generated_nodes_)),
               " distinct generated inputs ", "(from ",
               ToString(Cardinality(w.generator_rules_)), " rules) ",
               " without a non-depfile dep path to the generator.">>,
             <<"There might be build flakiness if any of the targets listed ",
               "above are built alone, or not late enough, in a clean output ",
               "directory.">> >>
     ELSE << <<"No missing dependencies on generated files found.">> >>)

(***************************************************************************)
(* The graphs, deps logs and depfiles a session can start from.            *)
(***************************************************************************)
\* The functions f on S with f[x] \in C[x].
RECURSIVE FunsOver(_, _)
FunsOver(S, C) ==
    IF S = {} THEN {EmptyMap}
    ELSE LET x == CHOOSE y \in S : TRUE
         IN {[z \in S |-> IF z = x THEN v ELSE f[z]] :
                f \in FunsOver(S \ {x}, C), v \in C[x]}

NoRepeat(s) == \A i, j \in DOMAIN s : i # j => s[i] # s[j]

\* The manifest itself is node 1, a source file that no build step lists as
\* an input.
ManifestNode == 1

\* Node -> producing edge.  An edge is named by its first output, so a node is
\* a source (NULL), the first output of its own edge, or a further output of
\* an edge of a smaller node.
InEdgeChoices ==
    {f \in [Nodes -> {NULL} \cup Edges] :
        \A n \in Nodes :
            f[n] # NULL => /\ f[n] <= n
                           /\ f[f[n]] = f[n]
                           /\ n # ManifestNode}

EdgesOf(ie) == {e \in Edges : ie[e] = e}

\* The input lists of an edge: nodes created before its first output (the
\* graph is acyclic), none twice.  An edge id not in use has no inputs.
InputChoices(ie) ==
    [e \in Edges |->
        IF e \in EdgesOf(ie)
        THEN {s \in SeqsUpTo((1..(e - 1)) \ {ManifestNode}, MaxInputs) :
                 NoRepeat(s)}
        ELSE {<<>>}]

OutputsOf(ie) ==
    [e \in Edges |-> SetToSeq({n \in Nodes : ie[n] = e})]

Graphs ==
    UNION {{[in_edge |-> ie, inputs_ |-> ins, outputs_ |-> OutputsOf(ie)] :
                ins \in FunsOver(Edges, InputChoices(ie))} :
           ie \in InEdgeChoices}

\* The rule of every edge in use; the first edge has rule "r1" (the names of
\* the rules are interchangeable).
RuleChoices(ie) ==
    [e \in Edges |->
        IF e \in EdgesOf(ie) /\ \E d \in EdgesOf(ie) : d < e THEN Rules
        ELSE {"r1"}]

\* The dependency lists a depfile or a deps log entry can hold.
DepLists == SeqsUpTo(Nodes, MaxDeps)

\* The "deps" binding: the manifest gives every build step the same one,
\* empty or "gcc".
BindingChoices(ie) ==
    {[e \in Edges |-> IF e \in EdgesOf(ie) THEN b ELSE ""] : b \in {"", "gcc"}}

\* What a build recorded for its outputs: nothing, or the same list for every
\* output but at most one (`absent`), whose entry or depfile is missing.
Recorded == {NullDeps} \cup {[nodes |-> l, node_count |-> Len(l)] : l \in DepLists}

AbsentChoices(ie, rec) ==
    IF rec = NullDeps THEN {NULL} ELSE {NULL} \cup {n \in Nodes : ie[n] # NULL}

\* A deps log entry exists only for an output of an edge with a "deps"
\* binding (a build records no other).
LogOf(ie, b, rec, absent) ==
    [n \in Nodes |->
        IF ie[n] # NULL /\ b[ie[n]] # "" /\ n # absent THEN rec ELSE NullDeps]

\* A depfile as a compiler writes it: every second path with a leading "./".
Spell(l) == [i \in DOMAIN l |-> RawPath(IF i % 2 = 0 THEN "./" ELSE "", l[i])]

\* A depfile is on disk only for an edge without a "deps" binding (a build
\* deletes a depfile once it is in the deps log).
DiskOf(ie, b, rec, absent) ==
    [e \in Edges |->
        IF /\ e \in EdgesOf(ie)
           /\ b[e] = ""
           /\ rec # NullDeps
           /\ (absent = NULL \/ ie[absent] # e)
        THEN [ok |-> TRUE, ins |-> Spell(rec.nodes)]
        ELSE NoDepfile]

(***************************************************************************)
(* The session.                                                            *)
(***************************************************************************)
\* What a session leaves: the scanner's sets, its count and the OnMissingDep
\* calls in the order they were made.
Outcome(w) ==
    [seen_ |-> w.seen_, nodes_missing_deps_ |-> w.nodes_missing_deps_,
     generated_nodes_ |-> w.generated_nodes_,
     generator_rules_ |-> w.generator_rules_,
     missing_dep_path_count_ |-> w.missing_dep_path_count_,
     reports |-> SelectSeq(w.trace, LAMBDA e : e.kind = "report")]

\* No second session was run.
NoSession ==
    [seen_ |-> {}, nodes_missing_deps_ |-> {}, generated_nodes_ |-> {},
     generator_rules_ |-> {}, missing_dep_path_count_ |-> -1,
     reports |-> <<>>]

Init ==
    /\ \E g \in Graphs :
          /\ in_edge = g.in_edge
          /\ inputs_ = g.inputs_
          /\ outputs_ = g.outputs_
    /\ rule_ \in FunsOver(Edges, RuleChoices(in_edge))
    /\ bindings \in BindingChoices(in_edge)
    /\ \E rec \in Recorded :
          \E absent \in AbsentChoices(in_edge, rec) :
              /\ deps_log = LogOf(in_edge, bindings, rec, absent)
              /\ disk = DiskOf(in_edge, bindings, rec, absent)
    /\ seen_ = {}
    /\ nodes_missing_deps_ = {}
    /\ generated_nodes_ = {}
    /\ generator_rules_ = {}
    /\ missing_dep_path_count_ = 0
    /\ adjacency_map_ = EmptyMap
    /\ trace = <<>>
    /\ cout = <<>>
    /\ result = [op |-> "new", a |-> 0, b |-> 0, ret |-> FALSE]
    /\ ncalls = 0
    /\ alt = NoSession
    /\ stack = <<>>
    /\ paths_ = EmptyMap
    /\ stats = EmptyMap
    /\ dirty_ = EmptyMap
    /\ fault = ""

\* The next state has the world w.
Becomes(w) ==
    /\ in_edge' = w.in_edge
    /\ inputs_' = w.inputs_
    /\ outputs_' = w.outputs_
    /\ rule_' = w.rule_
    /\ bindings' = w.bindings
    /\ deps_log' = w.deps_log
    /\ disk' = w.disk
    /\ seen_' = w.seen_
    /\ nodes_missing_deps_' = w.nodes_missing_deps_
    /\ generated_nodes_' = w.generated_nodes_
    /\ generator_rules_' = w.generator_rules_
    /\ missing_dep_path_count_' = w.missing_dep_path_count_
    /\ adjacency_map_' = w.adjacency_map_
    /\ trace' = w.trace

\* The caller processes a root (or passes a null pointer); the delegate is a
\* MissingDependencyPrinter.
CallProcessNode(node) ==
    /\ ncalls < MaxCalls
    /\ LET w == ProcessNode(node, World)
           new == SubSeq(Reports(w.trace), Len(Reports(trace)) + 1,
                         Len(Reports(w.trace)))
       IN /\ Becomes(w)
          /\ cout' = [i \in DOMAIN new |-> OnMissingDepLine(new[i])]
    /\ result' = [op |-> "ProcessNode", a |-> node, b |-> 0, ret |-> FALSE]
    /\ ncalls' = ncalls + 1
    /\ UNCHANGED <<alt, stack, cacheVars>>

CallPathExistsBetween(from, to) ==
    /\ ncalls < MaxCalls
    /\ LET r == PathExistsBetween(from, to, World)
       IN /\ Becomes(r.w)
          /\ result' = [op |-> "PathExistsBetween", a |-> from, b |-> to,
                        ret |-> r.ret]
    /\ cout' = <<>>
    /\ ncalls' = ncalls + 1
    /\ UNCHANGED <<alt, stack, cacheVars>>

CallHadMissingDeps ==
    /\ ncalls < MaxCalls
    /\ Becomes(World)
    /\ result' = [op |-> "HadMissingDeps", a |-> 0, b |-> 0,
                  ret |-> HadMissingDeps(World)]
    /\ cout' = <<>>
    /\ ncalls' = ncalls + 1
    /\ UNCHANGED <<alt, stack, cacheVars>>

CallPrintStats ==
    /\ ncalls < MaxCalls
    /\ Becomes(World)
    /\ result' = [op |-> "PrintStats", a |-> 0, b |-> 0, ret |-> FALSE]
    /\ cout' = PrintStats(World)
    /\ ncalls' = ncalls + 1
    /\ UNCHANGED <<alt, stack, cacheVars>>

Next ==
    \/ \E node \in Nodes \cup {NULL} : CallProcessNode(node)
    \/ \E from, to \in EdgesOf(in_edge) : CallPathExistsBetween(from, to)
    \/ CallHadMissingDeps
    \/ CallPrintStats

Spec == Init /\ [][Next]_vars

(***************************************************************************)
(* Two sessions over one graph, deps log and disk: the first processes the *)
(* roots r1, r2 in this order; the second processes r2, r1 and finds the   *)
(* inputs of the edges in `rev` in the opposite order.                     *)
(***************************************************************************)
Reverse(q) == [i \in 1..Len(q) |-> q[Len(q) + 1 - i]]

CallProcessRoots(r1, r2, rev) ==
    /\ ncalls = 0
    /\ LET w == ProcessNode(r2, ProcessNode(r1, World))
           other == [World EXCEPT !.inputs_ =
                        [e \in Edges |-> IF e \in rev THEN Reverse(inputs_[e])
                                         ELSE inputs_[e]]]
           v == ProcessNode(r1, ProcessNode(r2, other))
       IN /\ Becomes(w)
          /\ cout' = [i \in DOMAIN Reports(w.trace) |->
                         OnMissingDepLine(Reports(w.trace)[i])]
          /\ alt' = Outcome(v)
    /\ result' = [op |-> "ProcessRoots", a |-> r1, b |-> r2, ret |-> FALSE]
    /\ ncalls' = 2
    /\ UNCHANGED <<stack, cacheVars>>

NextOrder ==
    \E r1, r2 \in Nodes :
        \E rev \in SUBSET {e \in EdgesOf(in_edge) : Len(inputs_[e]) >= 2} :
            CallProcessRoots(r1, r2, rev)

SpecOrder == Init /\ [][NextOrder]_vars

(***************************************************************************)
(* One call run statement by statement on an explicit call stack.  The     *)
(* graph may have cycles here.  A frame holds the function, the place in   *)
(* it, its arguments a and b, the loop index i, the value r its callee     *)
(* returned, and the locals dep_nodes (list), deplog_edges (des) and       *)
(* missing_deps (missing).                                                 *)
(***************************************************************************)
Frame(fn, pc, a, b) ==
    [fn |-> fn, pc |-> pc, a |-> a, b |-> b, i |-> 1, r |-> FALSE,
     list |-> <<>>, des |-> <<>>, missing |-> <<>>]

Top == stack[Len(stack)]
SetTop(f) == [stack EXCEPT ![Len(stack)] = f]
At(fn, pc) == stack # <<>> /\ Top.fn = fn /\ Top.pc = pc

\* The stack after the top frame returns v: the caller finds v in r.
Popped(v) ==
    IF Len(stack) = 1 THEN <<>>
    ELSE [SubSeq(stack, 1, Len(stack) - 1) EXCEPT ![Len(stack) - 1].r = v]

\* The outermost call hands its value to the caller of the operation.
ResultAfter(v) ==
    IF Len(stack) = 1 THEN [result EXCEPT !.ret = v] ELSE result

\* A call: the caller moves to pc, the callee's frame goes on top.
Called(pc, callee) == Append(SetTop([Top EXCEPT !.pc = pc]), callee)

runFixed == <<graphVars, deps_log, disk, cout, ncalls, alt, cacheVars>>

\* Lines 78-84 without the test of line 83.
PN_EnterNoSeen ==
    /\ At("ProcessNode", "enter")
    /\ LET node == Top.a
           out == node = NULL \/ in_edge[node] = NULL
       IN /\ seen_' = IF out THEN seen_ ELSE seen_ \cup {node}
          /\ trace' = IF out THEN trace
                      ELSE Append(trace, Ev("visit", node, 0, "", ""))
          /\ stack' = IF out THEN Popped(FALSE)
                      ELSE SetTop([Top EXCEPT !.pc = "inputs", !.i = 1])
          /\ result' = IF out THEN ResultAfter(FALSE) ELSE result
    /\ UNCHANGED <<nodes_missing_deps_, generated_nodes_, generator_rules_,
                   missing_dep_path_count_, adjacency_map_, runFixed>>

\* Lines 78-84.
PN_Enter ==
    /\ At("ProcessNode", "enter")
    /\ LET node == Top.a
           out == node = NULL \/ in_edge[node] = NULL \/ node \in seen_
       IN /\ seen_' = IF out THEN seen_ ELSE seen_ \cup {node}
          /\ trace' = IF out THEN trace
                      ELSE Append(trace, Ev("visit", node, 0, "", ""))
          /\ stack' = IF out THEN Popped(FALSE)
                      ELSE SetTop([Top EXCEPT !.pc = "inputs", !.i = 1])
          /\ result' = IF out THEN ResultAfter(FALSE) ELSE result
    /\ UNCHANGED <<nodes_missing_deps_, generated_nodes_, generator_rules_,
                   missing_dep_path_count_, adjacency_map_, runFixed>>

\* Lines 86-88: the next input, or on to line 90.
PN_Inputs ==
    /\ At("ProcessNode", "inputs")
    /\ LET ins == inputs_[in_edge[Top.a]]
       IN IF Top.i <= Len(ins)
          THEN /\ Len(stack) < MaxStack
               /\ stack' = Append(SetTop([Top EXCEPT !.i = @ + 1]),
                                  Frame("ProcessNode", "enter", ins[Top.i], 0))
          ELSE stack' = SetTop([Top EXCEPT !.pc = "classify"])
    /\ UNCHANGED <<scanVars, trace, result, runFixed>>

\* Lines 90-104: the dependency list and the call of ProcessNodeDeps.
PN_Classify ==
    /\ At("ProcessNode", "classify")
    /\ LET node == Top.a
           edge == in_edge[node]
           deps_type == bindings[edge]
           deps == GetDeps(node, World)
           depfile_deps ==
               LoadDeps(edge, [w |-> World, dep_nodes_output_ |-> <<>>])
                   .dep_nodes_output_
           called == IF deps_type # "" THEN deps # NullDeps
                     ELSE depfile_deps # <<>>
           callee == [Frame("ProcessNodeDeps", "collect", node, 0) EXCEPT
                         !.list = IF deps_type # "" THEN deps.nodes
                                  ELSE depfile_deps]
       IN /\ called => Len(stack) < MaxStack
          /\ trace' = trace \o
                 <<Ev("classify", node, 0, "", ""),
                   Ev(IF deps_type # "" THEN "logread" ELSE "depfile",
                      node, 0, "", "")>>
          /\ stack' = IF called THEN Called("return", callee)
                      ELSE SetTop([Top EXCEPT !.pc = "return"])
    /\ UNCHANGED <<scanVars, result, runFixed>>

\* Line 105.
PN_Return ==
    /\ At("ProcessNode", "return")
    /\ stack' = Popped(FALSE)
    /\ result' = ResultAfter(FALSE)
    /\ UNCHANGED <<scanVars, trace, runFixed>>

\* Lines 109-125.
PND_Collect ==
    /\ At("ProcessNodeDeps", "collect")
    /\ LET c == CollectEdges(Top.list, Len(Top.list), 1, {}, World)
       IN /\ stack' = IF c.stop THEN Popped(FALSE)
                      ELSE SetTop([Top EXCEPT !.pc = "query", !.i = 1,
                                              !.des = SetToSeq(c.edges)])
          /\ result' = IF c.stop THEN ResultAfter(FALSE) ELSE result
    /\ trace' = Append(trace, Ev("deps", Top.a, 0, "", ""))
    /\ UNCHANGED <<scanVars, runFixed>>

\* Lines 127-128: the query for the next edge of the set, or on to line 133.
PND_Query ==
    /\ At("ProcessNodeDeps", "query")
    /\ IF Top.i <= Len(Top.des)
       THEN /\ Len(stack) < MaxStack
            /\ stack' = Called("back", Frame("PathExistsBetween", "enter",
                                             Top.des[Top.i], in_edge[Top.a]))
       ELSE stack' = SetTop([Top EXCEPT !.pc = "report"])
    /\ UNCHANGED <<scanVars, trace, result, runFixed>>

\* Lines 128-130: the query has returned.
PND_Back ==
    /\ At("ProcessNodeDeps", "back")
    /\ stack' = SetTop([Top EXCEPT
                          !.pc = "query", !.i = @ + 1,
                          !.missing = IF ~Top.r THEN Append(@, Top.des[Top.i])
                                      ELSE @])
    /\ UNCHANGED <<scanVars, trace, result, runFixed>>

\* Lines 133-148.
PND_Report ==
    /\ At("ProcessNodeDeps", "report")
    /\ LET r == ReportMissing(Top.a, Top.list, Len(Top.list), Top.missing, 1,
                              [w |-> World, names |-> {}])
       IN IF Top.missing # <<>>
          THEN /\ generated_nodes_' = r.w.generated_nodes_
               /\ generator_rules_' = r.w.generator_rules_
               /\ trace' = r.w.trace
               /\ missing_dep_path_count_' =
                      missing_dep_path_count_ + Cardinality(r.names)
               /\ nodes_missing_deps_' = nodes_missing_deps_ \cup {Top.a}
          ELSE UNCHANGED <<generated_nodes_, generator_rules_, trace,
                           missing_dep_path_count_, nodes_missing_deps_>>
    /\ stack' = Popped(FALSE)
    /\ result' = ResultAfter(FALSE)
    /\ UNCHANGED <<seen_, adjacency_map_, runFixed>>

\* Lines 169-177.
PEB_Enter ==
    /\ At("PathExistsBetween", "enter")
    /\ LET from == Top.a
           to == Top.b
           hit == HasEntry(adjacency_map_, from, to)
       IN /\ adjacency_map_' = IF hit THEN adjacency_map_
                               ELSE MapInsert(adjacency_map_, from, EmptyMap)
          /\ trace' = IF hit THEN trace
                      ELSE Append(trace, Ev("scan", from, to, "", ""))
          /\ stack' = IF hit THEN Popped(adjacency_map_[from][to])
                      ELSE SetTop([Top EXCEPT !.pc = "scan", !.i = 1])
          /\ result' = IF hit THEN ResultAfter(adjacency_map_[from][to])
                       ELSE result
    /\ UNCHANGED <<seen_, nodes_missing_deps_, generated_nodes_,
                   generator_rules_, missing_dep_path_count_, runFixed>>

\* Lines 178-187: the next input of `to`, or the end of the loop.
PEB_Scan ==
    /\ At("PathExistsBetween", "scan")
    /\ LET from == Top.a
           to == Top.b
           ins == inputs_[to]
           e == IF Top.i <= Len(ins) THEN in_edge[ins[Top.i]] ELSE NULL
       IN IF Top.i > Len(ins) \/ e = from
          THEN /\ adjacency_map_' =
                      MemoInsert(adjacency_map_, from, to, Top.i <= Len(ins))
               /\ stack' = Popped(Top.i <= Len(ins))
               /\ result' = ResultAfter(Top.i <= Len(ins))
          ELSE /\ e # NULL => Len(stack) < MaxStack
               /\ stack' = IF e = NULL THEN SetTop([Top EXCEPT !.i = @ + 1])
                           ELSE Called("back", Frame("PathExistsBetween",
                                                     "enter", from, e))
               /\ UNCHANGED <<adjacency_map_, result>>
    /\ UNCHANGED <<seen_, nodes_missing_deps_, generated_nodes_,
                   generator_rules_, missing_dep_path_count_, trace, runFixed>>

\* The return from the recursive query going on with the same input.
PEB_BackNoAdvance ==
    /\ At("PathExistsBetween", "back")
    /\ IF Top.r
       THEN /\ adjacency_map_' = MemoInsert(adjacency_map_, Top.a, Top.b, TRUE)
            /\ stack' = Popped(TRUE)
            /\ result' = ResultAfter(TRUE)
       ELSE /\ stack' = SetTop([Top EXCEPT !.pc = "scan"])
            /\ UNCHANGED <<adjacency_map_, result>>
    /\ UNCHANGED <<seen_, nodes_missing_deps_, generated_nodes_,
                   generator_rules_, missing_dep_path_count_, trace, runFixed>>

\* Lines 181-187: the recursive query has returned.
PEB_Back ==
    /\ At("PathExistsBetween", "back")
    /\ IF Top.r
       THEN /\ adjacency_map_' = MemoInsert(adjacency_map_, Top.a, Top.b, TRUE)
            /\ stack' = Popped(TRUE)
            /\ result' = ResultAfter(TRUE)
       ELSE /\ stack' = SetTop([Top EXCEPT !.pc = "scan", !.i = @ + 1])
            /\ UNCHANGED <<adjacency_map_, result>>
    /\ UNCHANGED <<seen_, nodes_missing_deps_, generated_nodes_,
                   generator_rules_, missing_dep_path_count_, trace, runFixed>>

\* The graphs of a run: as Graphs, over the first RunNodes nodes, with any
\* input lists, cycles included.
RunGraphs ==
    UNION {{[in_edge |-> ie, inputs_ |-> ins, outputs_ |-> OutputsOf(ie)] :
                ins \in FunsOver(Edges,
                    [e \in Edges |->
                        IF e \in EdgesOf(ie)
                        THEN {q \in SeqsUpTo((1..RunNodes) \ {ManifestNode},
                                             MaxInputs) : NoRepeat(q)}
                        ELSE {<<>>}])} :
           ie \in {f \in InEdgeChoices :
                      \A n \in Nodes : n > RunNodes => f[n] = NULL}}

\* A fresh scanner and one call just made: ProcessNode(root) or
\* PathExistsBetween(from, to).
InitRun ==
    /\ \E g \in RunGraphs :
          /\ in_edge = g.in_edge
          /\ inputs_ = g.inputs_
          /\ outputs_ = g.outputs_
    /\ rule_ = [e \in Edges |-> "r1"]
    /\ bindings \in BindingChoices(in_edge)
    /\ \E rec \in {c \in Recorded : Range(c.nodes) \subseteq 1..RunNodes} :
          /\ deps_log = LogOf(in_edge, bindings, rec, NULL)
          /\ disk = DiskOf(in_edge, bindings, rec, NULL)
    /\ seen_ = {}
    /\ nodes_missing_deps_ = {}
    /\ generated_nodes_ = {}
    /\ generator_rules_ = {}
    /\ missing_dep_path_count_ = 0
    /\ adjacency_map_ = EmptyMap
    /\ trace = <<>>
    /\ cout = <<>>
    /\ ncalls = 1
    /\ alt = NoSession
    /\ paths_ = EmptyMap
    /\ stats = EmptyMap
    /\ dirty_ = EmptyMap
    /\ fault = ""
    /\ \/ \E root \in (1..RunNodes) \cup {NULL} :
             /\ stack = <<Frame("ProcessNode", "enter", root, 0)>>
             /\ result = [op |-> "ProcessNode", a |-> root, b |-> 0,
                          ret |-> FALSE]
       \/ \E from, to \in EdgesOf(in_edge) :
             /\ stack = <<Frame("PathExistsBetween", "enter", from, to)>>
             /\ result = [op |-> "PathExistsBetween", a |-> from, b |-> to,
                          ret |-> FALSE]

NextRun ==
    \/ PN_Enter
    \/ PN_Inputs
    \/ PN_Classify
    \/ PN_Return
    \/ PND_Collect
    \/ PND_Query
    \/ PND_Back
    \/ PND_Report
    \/ PEB_Enter
    \/ PEB_Scan
    \/ PEB_Back

\* A single thread runs the call: its next statement is always executed.
SpecRun == InitRun /\ [][NextRun]_vars /\ WF_vars(NextRun)

(***************************************************************************)
(* The stat cache (stat_cache.cc).  A path is PathNames[p], p in           *)
(* 1..MaxPaths; FileStats and Nodes are numbered as they are allocated.    *)
(***************************************************************************)
\* m with the value v at the key k.
Put(m, k, v) == [x \in DOMAIN m \cup {k} |-> IF x = k THEN v ELSE m[x]]

\* FileStat::FileStat(path) (graph.h): no mtime yet, no node.
NewFileStat(p) == [path_ |-> PathNames[p], mtime_ |-> -1, node_ |-> NULL]

scannerVars == <<graphVars, deps_log, disk, scanVars, trace, alt, stack>>

\* StatCache::GetFile, lines 22-29.
GetFile(p) ==
    /\ fault = ""
    /\ LET key == PathNames[p]
           file == Cardinality(DOMAIN stats) + 1
       IN IF key \in DOMAIN paths_
          THEN /\ UNCHANGED <<paths_, stats>>
               /\ result' = [op |-> "GetFile", a |-> paths_[key], b |-> p,
                             ret |-> FALSE]
          ELSE /\ stats' = Put(stats, file, NewFileStat(p))
               /\ paths_' = Put(paths_, key, file)
               /\ result' = [op |-> "GetFile", a |-> file, b |-> p,
                             ret |-> TRUE]
    /\ cout' = <<>>
    /\ UNCHANGED <<dirty_, fault, ncalls, scannerVars>>

\* State::GetNode (ninja.h): the FileStat of the path gets a Node on the
\* first request.
GetNodeOfFile(p) ==
    /\ fault = ""
    /\ PathNames[p] \in DOMAIN paths_
    /\ LET file == paths_[PathNames[p]]
           node == Cardinality(DOMAIN dirty_) + 1
       IN /\ stats[file].node_ = NULL
          /\ stats' = [stats EXCEPT ![file].node_ = node]
          /\ dirty_' = Put(dirty_, node, FALSE)
          /\ result' = [op |-> "GetNode", a |-> node, b |-> p, ret |-> FALSE]
    /\ cout' = <<>>
    /\ UNCHANGED <<paths_, fault, ncalls, scannerVars>>

\* FileStat::Stat and Node::MarkDirty (graph.cc): a build stats a file (0: it
\* does not exist) and may mark its node dirty.
StatFile(file, mtime, mark) ==
    /\ fault = ""
    /\ stats[file].mtime_ # mtime \/ mark
    /\ mark => stats[file].node_ # NULL /\ ~dirty_[stats[file].node_]
    /\ stats' = [stats EXCEPT ![file].mtime_ = mtime]
    /\ dirty_' = IF mark THEN [dirty_ EXCEPT ![stats[file].node_] = TRUE]
                 ELSE dirty_
    /\ result' = [op |-> "Stat", a |-> file, b |-> 0, ret |-> mark]
    /\ cout' = <<>>
    /\ UNCHANGED <<paths_, fault, ncalls, scannerVars>>

\* StatCache::Invalidate, lines 58-63.  Line 61 stores through node_ without
\* a test.  With a node for every FileStat the loop completes.  Else the
\* store through a null pointer either goes by unnoticed, or it ends the
\* process at some FileStat `at` without a node, after the FileStats in
\* `done` (the map's order is not fixed) and line 60 for `at`.
Invalidate ==
    /\ fault = ""
    /\ paths_ # EmptyMap
    /\ LET files == DOMAIN stats
           bare == {f \in files : stats[f].node_ = NULL}
       IN \E how \in (IF bare = {} THEN {""} ELSE {"deref", "crash"}) :
          \E at \in (IF how = "crash" THEN bare ELSE {NULL}) :
          \E done \in (IF how = "crash" THEN SUBSET (files \ {at})
                       ELSE {files}) :
             /\ fault' = how
             /\ stats' = [f \in files |->
                            IF f \in done \cup {at}
                            THEN [stats[f] EXCEPT !.mtime_ = -1]
                            ELSE stats[f]]
             /\ dirty_' = [n \in DOMAIN dirty_ |->
                             IF \E f \in done : stats[f].node_ = n THEN FALSE
                             ELSE dirty_[n]]
    /\ result' = [op |-> "Invalidate", a |-> 0, b |-> 0, ret |-> FALSE]
    /\ cout' = <<>>
    /\ UNCHANGED <<paths_, ncalls, scannerVars>>

NextCache ==
    \/ \E p \in 1..MaxPaths : GetFile(p)
    \/ \E p \in 1..MaxPaths : GetNodeOfFile(p)
    \/ \E file \in DOMAIN stats : \E mtime \in 0..1 : \E mark \in BOOLEAN :
          StatFile(file, mtime, mark)
    \/ Invalidate

\* The cache starts empty; the scanner is not used.
InitCache ==
    /\ in_edge = [n \in Nodes |-> NULL]
    /\ inputs_ = [e \in Edges |-> <<>>]
    /\ outputs_ = [e \in Edges |-> <<>>]
    /\ rule_ = [e \in Edges |-> "r1"]
    /\ bindings = [e \in Edges |-> ""]
    /\ deps_log = [n \in Nodes |-> NullDeps]
    /\ disk = [e \in Edges |-> NoDepfile]
    /\ seen_ = {}
    /\ nodes_missing_deps_ = {}
    /\ generated_nodes_ = {}
    /\ generator_rules_ = {}
    /\ missing_dep_path_count_ = 0
    /\ adjacency_map_ = EmptyMap
    /\ trace = <<>>
    /\ cout = <<>>
    /\ result = [op |-> "new", a |-> 0, b |-> 0, ret |-> FALSE]
    /\ ncalls = 0
    /\ alt = NoSession
    /\ stack = <<>>
    /\ paths_ = EmptyMap
    /\ stats = EmptyMap
    /\ dirty_ = EmptyMap
    /\ fault = ""

SpecCache == InitCache /\ [][NextCache]_vars

(***************************************************************************)
(* Reference definitions the claims are stated with.                       *)
(***************************************************************************)
\* The edges producing a direct input of `to`.
DirectProducers(to) == {in_edge[n] : n \in Range(inputs_[to])} \ {NULL}

\* reachable(from, to) of the specification, unmemoized: some direct input of
\* `to` has a producing edge e with e = from or reachable(from, e).
RECURSIVE Reachable(_, _)
Reachable(from, to) ==
    \E e \in DirectProducers(to) : e = from \/ Reachable(from, e)

\* The dependency list of a generated node: its deps log entry when its edge
\* has a "deps" binding, else the nodes its depfile names.
DepList(n) ==
    LET e == in_edge[n]
    IN IF bindings[e] # ""
       THEN (IF deps_log[n] = NullDeps THEN <<>> ELSE deps_log[n].nodes)
       ELSE [i \in DOMAIN disk[e].ins |->
                CHOOSE d \in Nodes : path(d) = disk[e].ins[i].name]

DepSet(n) == Range(DepList(n))

HasManifestDep(n) == \E d \in DepSet(n) : path(d) = "build.ninja"

ReportSet == {[n |-> e.a, p |-> e.p, r |-> e.r] : e \in Range(Reports(trace))}

\* C1: every OnMissingDep(n, p, r) made so far has n visited and generated,
\* p the path of a dependency d of n, d produced by an edge G with rule r, and
\* no explicit path from G to n's producing edge.
C1_Soundness ==
    \A c \in ReportSet :
        /\ c.n \in seen_
        /\ in_edge[c.n] # NULL
        /\ \E d \in DepSet(c.n) :
              /\ path(d) = c.p
              /\ in_edge[d] # NULL
              /\ rule_[in_edge[d]] = c.r
              /\ ~Reachable(in_edge[d], in_edge[c.n])

\* A session with a report, in which a visited node also has a dependency
\* whose producer it reaches only through another build step.
C1_Witness ==
    /\ ReportSet # {}
    /\ \E n \in seen_ : \E d \in DepSet(n) :
          /\ in_edge[d] # NULL
          /\ Reachable(in_edge[d], in_edge[n])
          /\ in_edge[d] \notin DirectProducers(in_edge[n])

\* The generated nodes ProcessNode(root) can reach: root, if it is generated,
\* and those reached through the inputs of producing edges.
RECURSIVE Closure(_)
Closure(n) ==
    IF n = NULL \/ in_edge[n] = NULL THEN {}
    ELSE {n} \cup UNION {Closure(m) : m \in Range(inputs_[in_edge[n]])}

\* The dependencies of n that are missing: generated, and no explicit path
\* from their producing edge to n's.
MissingOf(n) ==
    {d \in DepSet(n) :
        in_edge[d] # NULL /\ ~Reachable(in_edge[d], in_edge[n])}

\* The single-gap scenario at c: an edge A makes a, an edge B takes a and
\* makes b, and c records b, and nothing else, as a dependency it has no
\* explicit path to.
SingleGap(c) ==
    /\ in_edge[c] # NULL
    /\ Len(DepList(c)) = 1
    /\ \E b \in MissingOf(c) :
          \E a \in Range(inputs_[in_edge[b]]) : in_edge[a] # NULL

ReportsFor(n) == SelectSeq(Reports(trace), LAMBDA e : e.a = n)

\* C2: when ProcessNode(root) has returned, every generated node reachable
\* from root is visited, and for every visited node n whose dependency set has
\* no "build.ninja", OnMissingDep(n, path(d), rule of d's producer) has been
\* called for every missing dependency d.  In the single-gap scenario that is
\* exactly one call for c, c is in the nodes-with-gaps set, and the count is 1
\* when c is the only node visited.
C2_Completeness ==
    /\ result.op = "ProcessNode" => Closure(result.a) \subseteq seen_
    /\ \A n \in seen_ :
          ~HasManifestDep(n) =>
              \A d \in MissingOf(n) :
                  [n |-> n, p |-> path(d), r |-> rule_[in_edge[d]]] \in ReportSet
    /\ \A c \in seen_ :
          SingleGap(c) =>
              /\ Len(ReportsFor(c)) = 1
              /\ c \in nodes_missing_deps_
              /\ (seen_ = {c} => missing_dep_path_count_ = 1)

\* ProcessNode(c) has returned in the single-gap scenario, having also visited
\* an input of c's edge that has a missing dependency of its own, and some
\* visited node has two missing dependencies with different producers.
C2_Witness ==
    /\ result.op = "ProcessNode"
    /\ result.a # NULL
    /\ SingleGap(result.a)
    /\ \E n \in seen_ \ {result.a} : MissingOf(n) # {}

\* C3: a visited node with "build.ninja" anywhere in its dependency list has
\* no OnMissingDep call and is not in the nodes-with-gaps set, whatever else
\* the list holds; a ProcessNode call that visits only such nodes leaves the
\* count and the aggregate sets as they were.
C3_ReservedPath ==
    /\ [](\A n \in seen_ :
            HasManifestDep(n) =>
                ReportsFor(n) = <<>> /\ n \notin nodes_missing_deps_)
    /\ [][(result'.op = "ProcessNode" /\
           \A n \in seen_' \ seen_ : HasManifestDep(n))
          => /\ missing_dep_path_count_' = missing_dep_path_count_
             /\ nodes_missing_deps_' = nodes_missing_deps_
             /\ generated_nodes_' = generated_nodes_
             /\ generator_rules_' = generator_rules_
             /\ Reports(trace') = Reports(trace)]_vars

\* A visited node whose list has a missing dependency first and "build.ninja"
\* second.
C3_Witness ==
    \E n \in seen_ :
        /\ Len(DepList(n)) = 2
        /\ path(DepList(n)[2]) = "build.ninja"
        /\ DepList(n)[1] \in MissingOf(n)

\* How often the trace has an entry of this kind for node n.
Count(kind, n) ==
    Len(SelectSeq(trace, LAMBDA e : e.kind = kind /\ e.a = n))

\* C4: in a session the dependency classification runs exactly once for every
\* visited node and never for another, ProcessNodeDeps at most once per node;
\* a ProcessNode call on a visited node, a source file or a null pointer makes
\* no report and changes nothing of the session.
C4_Idempotent ==
    /\ [](\A n \in Nodes :
            /\ Count("visit", n) = (IF n \in seen_ THEN 1 ELSE 0)
            /\ Count("classify", n) = (IF n \in seen_ THEN 1 ELSE 0)
            /\ Count("deps", n) <= 1)
    /\ [][(result'.op = "ProcessNode" /\
           (result'.a = NULL \/ result'.a \in seen_
              \/ in_edge[result'.a] = NULL))
          => /\ UNCHANGED scanVars
             /\ trace' = trace
             /\ cout' = <<>>]_vars

\* The second call of a session is ProcessNode on a node that the first call,
\* ProcessNode on another root, had already visited; that node is an input of
\* two visited edges, and the session has a report.
C4_Witness ==
    /\ ncalls = 2
    /\ result.op = "ProcessNode"
    /\ result.a # NULL
    /\ trace # <<>>
    /\ trace[1].kind = "visit"
    /\ trace[1].a # result.a
    /\ result.a \in Closure(trace[1].a)
    /\ \E e1, e2 \in {in_edge[n] : n \in seen_} :
          /\ e1 # e2
          /\ result.a \in Range(inputs_[e1])
          /\ result.a \in Range(inputs_[e2])
    /\ ReportSet # {}

\* C5: every entry of the memo, and every value PathExistsBetween(from, to)
\* returns, is reachable(from, to) as the unmemoized recursive definition
\* gives it (false when `to` has no input with a producing edge).
C5_MemoConsistent ==
    /\ \A from \in DOMAIN adjacency_map_ :
          \A to \in DOMAIN adjacency_map_[from] :
              adjacency_map_[from][to] = Reachable(from, to)
    /\ result.op = "PathExistsBetween" =>
          /\ result.ret = Reachable(result.a, result.b)
          /\ DirectProducers(result.b) = {} => ~result.ret

\* PathExistsBetween(from, to) has returned true for a pair connected only
\* through an intermediate edge, from an entry that an earlier ProcessNode
\* call had stored (its scan is followed by a report in the trace), and the
\* memo holds a false entry too.
C5_Witness ==
    /\ result.op = "PathExistsBetween"
    /\ result.ret
    /\ result.a \notin DirectProducers(result.b)
    /\ \E i, j \in DOMAIN trace :
          /\ i < j
          /\ trace[i].kind = "scan"
          /\ trace[i].a = result.a
          /\ trace[i].b = result.b
          /\ trace[j].kind = "report"
    /\ \E from \in DOMAIN adjacency_map_ :
          \E to \in DOMAIN adjacency_map_[from] : ~adjacency_map_[from][to]

CleanLine == <<"No missing dependencies on generated files found.">>

RECURSIVE SumOver(_, _)
SumOver(S, f) ==
    IF S = {} THEN 0
    ELSE LET x == CHOOSE y \in S : TRUE
         IN f[x] + SumOver(S \ {x}, f)

\* The rule names of the edges that make the missing dependencies of n.
MissingRuleNames(n) ==
    IF HasManifestDep(n) THEN {}
    ELSE {RuleName(rule_[in_edge[d]]) : d \in MissingOf(n)}

\* The rule names reported for n so far.
ReportedRuleNames(n) == {RuleName(c.r) : c \in {x \in ReportSet : x.n = n}}

\* C7: each visited node has added to the count the number of distinct rule
\* names among its missing-dependency edges (nothing when it has none), so
\* the count is the sum, over the nodes-with-gaps set, of the number of
\* distinct rule names reported for the node.
C7_Count ==
    /\ missing_dep_path_count_ =
          SumOver(seen_, [n \in Nodes |-> Cardinality(MissingRuleNames(n))])
    /\ missing_dep_path_count_ =
          SumOver(nodes_missing_deps_,
                  [n \in Nodes |-> Cardinality(ReportedRuleNames(n))])

\* Two nodes have gaps; one of them has two missing dependencies made by
\* different edges with the same rule name, the other by edges with different
\* rule names.
C7_Witness ==
    /\ \E n \in nodes_missing_deps_ :
          \E d1, d2 \in MissingOf(n) :
              /\ in_edge[d1] # in_edge[d2]
              /\ RuleName(rule_[in_edge[d1]]) = RuleName(rule_[in_edge[d2]])
    /\ Cardinality(nodes_missing_deps_) >= 2
    /\ missing_dep_path_count_ < Len(Reports(trace))

\* How often OnMissingDep(n, path(d), .) was called.
CallsFor(n, d) ==
    Len(SelectSeq(Reports(trace), LAMBDA e : e.a = n /\ e.p = path(d)))

\* C8: for every consumer n and dependency d, OnMissingDep(n, path(d), .) is
\* called at most once in a session, and exactly once when d is missing for
\* a visited n, whatever the dependency list, repeated entries included.
C8_OneReportPerPair ==
    \A n, d \in Nodes :
        /\ CallsFor(n, d) <= 1
        /\ (n \in seen_ /\ ~HasManifestDep(n) /\ d \in MissingOf(n))
              => CallsFor(n, d) = 1

\* A generated node without dependency information: an empty "deps" binding
\* with no loadable depfile or a depfile that lists nothing, or a "deps"
\* binding and no deps log entry.
Degraded(n) ==
    /\ in_edge[n] # NULL
    /\ \/ /\ bindings[in_edge[n]] = ""
          /\ (~disk[in_edge[n]].ok \/ disk[in_edge[n]].ins = <<>>)
       \/ /\ bindings[in_edge[n]] # ""
          /\ deps_log[n] = NullDeps

\* C9: a visited node without dependency information has no report, is not in
\* the nodes-with-gaps set and never reaches ProcessNodeDeps; a ProcessNode
\* call that visits only such nodes leaves the count and the aggregate sets
\* unchanged; and the scan goes on: the generated nodes reachable from the
\* root are all visited and every other visited node has its reports.
C9_SilentDegradation ==
    /\ [](\A n \in seen_ :
            Degraded(n) =>
                /\ ReportsFor(n) = <<>>
                /\ n \notin nodes_missing_deps_
                /\ Count("deps", n) = 0)
    /\ [](result.op = "ProcessNode" => Closure(result.a) \subseteq seen_)
    /\ [](\A m \in seen_ :
            (~Degraded(m) /\ ~HasManifestDep(m)) =>
                \A d \in MissingOf(m) : CallsFor(m, d) >= 1)
    /\ [][(result'.op = "ProcessNode" /\
           \A n \in seen_' \ seen_ : Degraded(n))
          => /\ missing_dep_path_count_' = missing_dep_path_count_
             /\ nodes_missing_deps_' = nodes_missing_deps_
             /\ generated_nodes_' = generated_nodes_
             /\ generator_rules_' = generator_rules_
             /\ Reports(trace') = Reports(trace)]_vars

\* ProcessNode(root) has returned for a root whose depfile is missing, after
\* visiting an input of root's edge that has a report.
C9_Witness ==
    /\ result.op = "ProcessNode"
    /\ result.a \in seen_
    /\ Degraded(result.a)
    /\ bindings[in_edge[result.a]] = ""
    /\ \E m \in Closure(result.a) \ {result.a} : ReportsFor(m) # <<>>

C12_VisitedSet ==
    /\ [](\A n \in seen_ : n # NULL /\ in_edge[n] # NULL)
    /\ [](result.op = "ProcessNode" => Closure(result.a) \subseteq seen_)
    /\ [][/\ result'.op = "ProcessNode" =>
                seen_' = seen_ \cup Closure(result'.a)
          /\ result'.op # "ProcessNode" => seen_' = seen_]_vars
    /\ [](result.op = "PrintStats" =>
            cout[1] = <<"Processed ", ToString(Cardinality(seen_)), " nodes.">>)

\* PrintStats has run after a ProcessNode call that visited a node with two
\* inputs, one a source file and one generated.
C12_Witness ==
    /\ result.op = "PrintStats"
    /\ \E n \in seen_ :
          /\ Len(inputs_[in_edge[n]]) = 2
          /\ in_edge[inputs_[in_edge[n]][1]] # NULL
          /\ in_edge[inputs_[in_edge[n]][2]] = NULL

\* The place in the trace of the first entry of this kind for node n (0: none).
Pos(kind, n) ==
    IF Count(kind, n) = 0 THEN 0
    ELSE CHOOSE i \in DOMAIN trace :
            /\ trace[i].kind = kind /\ trace[i].a = n
            /\ \A j \in 1..(i - 1) : ~(trace[j].kind = kind /\ trace[j].a = n)

\* C13: a visited node n is marked visited before it is classified, and its
\* reports come after its classification starts; every generated input m of
\* n's edge is visited, is classified before n, has all its reports before
\* n's classification, and is either visited after n is marked or was
\* classified before n was marked.
C13_InputsFirst ==
    \A n \in seen_ :
        /\ 0 < Pos("visit", n)
        /\ Pos("visit", n) < Pos("classify", n)
        /\ \A i \in DOMAIN trace :
              (trace[i].kind = "report" /\ trace[i].a = n)
                  => i > Pos("classify", n)
        /\ \A m \in Range(inputs_[in_edge[n]]) :
              in_edge[m] # NULL =>
                  /\ m \in seen_
                  /\ Pos("classify", m) < Pos("classify", n)
                  /\ \A i \in DOMAIN trace :
                        (trace[i].kind = "report" /\ trace[i].a = m)
                            => i < Pos("classify", n)
                  /\ \/ Pos("visit", m) > Pos("visit", n)
                     \/ Pos("classify", m) < Pos("visit", n)

\* A visited node and a generated input of its edge both have reports, and
\* another input of the edge was visited by an earlier call.
C13_Witness ==
    \E n \in seen_ : \E m, k \in Range(inputs_[in_edge[n]]) :
        /\ m # k
        /\ ReportsFor(n) # <<>>
        /\ ReportsFor(m) # <<>>
        /\ k \in seen_
        /\ Pos("visit", k) < Pos("visit", n)

ScanCount(from, to) ==
    Len(SelectSeq(trace, LAMBDA e : e.kind = "scan" /\ e.a = from /\ e.b = to))

\* C15: the input scan runs at most once per pair (from, to) in a session and
\* the memo has an entry exactly for the pairs scanned; an entry is never
\* removed and never changes; a PathExistsBetween call for a pair with an
\* entry returns the entry and scans nothing.
C15_WriteOnceMemo ==
    /\ [](\A from, to \in Edges :
            /\ ScanCount(from, to) <= 1
            /\ ScanCount(from, to) = 1 <=> HasEntry(adjacency_map_, from, to))
    /\ [][\A from, to \in Edges :
            HasEntry(adjacency_map_, from, to) =>
                /\ HasEntry(adjacency_map_', from, to)
                /\ adjacency_map_'[from][to] = adjacency_map_[from][to]]_vars
    /\ [][(/\ result'.op = "PathExistsBetween"
           /\ HasEntry(adjacency_map_, result'.a, result'.b))
          => /\ result'.ret = adjacency_map_[result'.a][result'.b]
             /\ trace' = trace
             /\ adjacency_map_' = adjacency_map_]_vars

\* PathExistsBetween has been called for a pair that an earlier ProcessNode
\* call had scanned (reports follow the scan in the trace), and that call had
\* asked for one pair on behalf of two nodes.
C15_Witness ==
    /\ ncalls = 2
    /\ result.op = "PathExistsBetween"
    /\ \E i, j \in DOMAIN trace :
          /\ i < j
          /\ trace[i].kind = "scan"
          /\ trace[i].a = result.a
          /\ trace[i].b = result.b
          /\ trace[j].kind = "report"
    /\ \E n, m \in seen_ :
          /\ n # m
          /\ in_edge[n] = in_edge[m]
          /\ Count("deps", n) = 1
          /\ Count("deps", m) = 1

\* C18: after every operation the generated-inputs set is the set of
\* dependency nodes passed to OnMissingDep so far, the generator-rules set the
\* set of rules passed to it, the nodes-with-gaps set is part of the visited
\* set, and the count is zero iff the nodes-with-gaps set is empty, at least
\* the size of that set and at most the number of OnMissingDep calls.
C18_Aggregates ==
    /\ generated_nodes_ = {e.b : e \in Range(Reports(trace))}
    /\ generator_rules_ = {e.r : e \in Range(Reports(trace))}
    /\ nodes_missing_deps_ \subseteq seen_
    /\ missing_dep_path_count_ = 0 <=> nodes_missing_deps_ = {}
    /\ missing_dep_path_count_ >= Cardinality(nodes_missing_deps_)
    /\ missing_dep_path_count_ <= Len(Reports(trace))

\* Two nodes have gaps, the count is above the number of nodes with gaps,
\* and a visited node has none.
C18_Witness ==
    /\ Cardinality(nodes_missing_deps_) = 2
    /\ missing_dep_path_count_ > 2
    /\ seen_ \ nodes_missing_deps_ # {}

\* The dependencies of n made by n's own producing edge.
SelfDeps(n) == {d \in DepSet(n) : in_edge[d] = in_edge[n]}

\* C19: for a visited node n, with producing edge E, whose dependency list
\* has no "build.ninja" and names an output d of E (n itself or another),
\* the memo holds false for (E, E), OnMissingDep(n, path(d), rule of E) has
\* been called and n is in the nodes-with-gaps set, whatever the inputs of E;
\* and PathExistsBetween(E, E) returns false.
C19_SelfProduced ==
    /\ \A n \in seen_ :
          (~HasManifestDep(n) /\ SelfDeps(n) # {}) =>
              /\ HasEntry(adjacency_map_, in_edge[n], in_edge[n])
              /\ ~adjacency_map_[in_edge[n]][in_edge[n]]
              /\ \A d \in SelfDeps(n) :
                    [n |-> n, p |-> path(d), r |-> rule_[in_edge[n]]]
                        \in ReportSet
              /\ n \in nodes_missing_deps_
    /\ (result.op = "PathExistsBetween" /\ result.a = result.b) => ~result.ret

\* A visited node lists another output of its own edge as its only
\* dependency, the edge has a generated input, and the report was made.
C19_Witness ==
    \E n \in seen_ : \E d \in SelfDeps(n) :
        /\ d # n
        /\ DepSet(n) = {d}
        /\ DirectProducers(in_edge[n]) # {}
        /\ CallsFor(n, d) = 1

\* C11: two sessions over the same graph, deps log and depfiles, one
\* processing r1 then r2, the other r2 then r1 with the inputs of some edges
\* in the opposite order, end with the same set of (consumer, path, rule)
\* reports, the same visited, nodes-with-gaps, generated-inputs and
\* generator-rules sets and the same count.
C11_OrderIndependent ==
    result.op = "ProcessRoots" =>
        /\ {[n |-> e.a, p |-> e.p, r |-> e.r] : e \in Range(alt.reports)}
              = ReportSet
        /\ alt.seen_ = seen_
        /\ alt.nodes_missing_deps_ = nodes_missing_deps_
        /\ alt.generated_nodes_ = generated_nodes_
        /\ alt.generator_rules_ = generator_rules_
        /\ alt.missing_dep_path_count_ = missing_dep_path_count_

\* The two sessions processed different roots, two nodes have gaps, and the
\* sessions made their OnMissingDep calls in different orders.
C11_Witness ==
    /\ result.op = "ProcessRoots"
    /\ result.a # result.b
    /\ Cardinality(nodes_missing_deps_) >= 2
    /\ alt.reports # Reports(trace)

\* The edges with a path to e, on any graph: DirectProducers closed under
\* DirectProducers.
RECURSIVE Grow(_, _)
Grow(S, k) ==
    IF k = 0 THEN S
    ELSE Grow(S \cup UNION {DirectProducers(e) : e \in S}, k - 1)

EdgeReach(e) == Grow(DirectProducers(e), NumNodes)

IsAcyclic == \A e \in EdgesOf(in_edge) : e \notin EdgeReach(e)

\* The generated nodes reachable from root through the inputs of producing
\* edges, on any graph.
GeneratedReach(root) ==
    IF root = NULL \/ in_edge[root] = NULL THEN {}
    ELSE {root} \cup
         {n \in Nodes :
             /\ in_edge[n] # NULL
             /\ \E e \in {in_edge[root]} \cup EdgeReach(in_edge[root]) :
                   n \in Range(inputs_[e])}

\* A cycle among the generated nodes reachable from root.
CycleReachable(root) ==
    \E n \in GeneratedReach(root) : in_edge[n] \in EdgeReach(in_edge[n])

\* C16: on an acyclic graph, with any deps log and depfiles, the call made,
\* ProcessNode(root) or PathExistsBetween(from, to), returns, and a
\* ProcessNode(root) call has then classified every generated node reachable
\* from root, once.
C16_Terminates ==
    IsAcyclic =>
        <>(/\ stack = <<>>
           /\ result.op = "ProcessNode" =>
                 \A n \in GeneratedReach(result.a) : Count("classify", n) = 1)

\* ProcessNode(root) has returned on an acyclic graph after visiting two
\* nodes and scanning for two pairs, one with a path and one without.
C16_Witness ==
    /\ stack = <<>>
    /\ IsAcyclic
    /\ result.op = "ProcessNode"
    /\ Cardinality(seen_) = 2
    /\ \E f1, f2, t1, t2 \in Edges :
          /\ HasEntry(adjacency_map_, f1, t1) /\ adjacency_map_[f1][t1]
          /\ HasEntry(adjacency_map_, f2, t2) /\ ~adjacency_map_[f2][t2]

\* C17 as claimed: with a cycle among the generated nodes reachable from
\* root, ProcessNode(root) does not return.
C17_CycleDiverges ==
    (result.op = "ProcessNode" /\ CycleReachable(result.a)) => stack # <<>>

\* The ProcessNode frames past line 84.
Visiting ==
    {k \in DOMAIN stack : stack[k].fn = "ProcessNode" /\ stack[k].pc # "enter"}

\* C17 as amended: on any graph, cycles included, a node is visited at most
\* once, the ProcessNode frames past line 84 are for different nodes, all
\* marked visited, and the call returns unless a PathExistsBetween query
\* recurses without end (here: to the depth the stack allows).
C17_VisitBounded ==
    /\ [](\A n \in Nodes : Count("visit", n) <= 1)
    /\ [](\A j, k \in Visiting :
            /\ stack[j].a \in seen_
            /\ j # k => stack[j].a # stack[k].a)
    /\ <>(\/ stack = <<>>
          \/ Len(stack) = MaxStack /\ Top.fn = "PathExistsBetween")

\* ProcessNode(root) has returned with a cycle among the nodes reachable from
\* root, after a ProcessNodeDeps call for a node on the cycle.
C17_Witness ==
    /\ stack = <<>>
    /\ result.op = "ProcessNode"
    /\ \E n \in GeneratedReach(result.a) :
          /\ in_edge[n] \in EdgeReach(in_edge[n])
          /\ Count("deps", n) = 1

\* C20: the cache holds one FileStat per path requested, GetFile returns
\* the FileStat the path already has, and Invalidate completes: no store goes
\* through a null node pointer, and after it every FileStat has mtime -1 and
\* the node of every FileStat is not dirty.
C20_StatCache ==
    /\ \A k \in DOMAIN paths_ : stats[paths_[k]].path_ = k
    /\ \A k1, k2 \in DOMAIN paths_ : paths_[k1] = paths_[k2] => k1 = k2
    /\ Cardinality(DOMAIN stats) = Cardinality(DOMAIN paths_)
    /\ result.op = "GetFile" => paths_[PathNames[result.b]] = result.a
    /\ fault = ""
    /\ result.op = "Invalidate" =>
          \A f \in DOMAIN stats :
              /\ stats[f].mtime_ = -1
              /\ stats[f].node_ # NULL => ~dirty_[stats[f].node_]

====
